---- MODULE Spec2Model ----
(***************************************************************************)
(* Model of src/src/rust_backend.rs: the Rust code generator of            *)
(* rust-shell-script.  Text is modelled as sequences of one-character      *)
(* strings, the output file as the sequence of lines written by output!,   *)
(* and the standard error stream as the sequence of eprintln! lines.       *)
(***************************************************************************)
EXTENDS Integers, Sequences, FiniteSets, TLC

VARIABLES
    stmts,      \* gen_code's argument: the top-level statements
    sym_table,  \* gen_code's argument: the set of known routine names
    file,       \* the lines written so far to the output file
    stderr,     \* the lines written so far by eprintln!
    pc,         \* position of gen_code: "idle", "start", "top", "body", "done"
    i,          \* 1-based position of the for loop of gen_code
    j,          \* 1-based position of the for loop of visit_def_fun / visit_def_cmd
    indent,     \* the local `indent` of the routine being emitted
    flags,      \* the is_last arguments passed to visit_stmt for the current routine
    underflow,  \* whether body.len()-1 was evaluated with body.len() = 0
    run,        \* which run of gen_code this is (1 or 2)
    first,      \* the artifact of the first run, once a second run has started
    f_input,    \* format_str's argument
    fst         \* format_str's locals: rest (the iterator), output, vars, var, pc, k

vars == <<stmts, sym_table, file, stderr, pc, i, j, indent, flags, underflow, run, first, f_input, fst>>

emitVars == <<stmts, sym_table, file, stderr, pc, i, j, indent, flags, underflow, run, first>>

fmtVars == <<f_input, fst>>

----------------------------------------------------------------------------
(* Bounds of the model *)

\* longest routine body drawn for the single-routine programs
MaxBody == 2

\* longest top-level declaration list drawn for the multi-routine programs
MaxTop == 3

\* longest format_str input drawn from FmtAlphabet
MaxLen == 4

----------------------------------------------------------------------------
(* Text helpers *)

RECURSIVE Concat(_)
Concat(ss) == IF ss = <<>> THEN <<>> ELSE Head(ss) \o Concat(Tail(ss))

\* (0..indent).map(|_| " ").collect::<String>()
Spaces(n) == [x \in 1..n |-> " "]

StartsWith(s, p) == Len(s) >= Len(p) /\ SubSeq(s, 1, Len(p)) = p

EndsWith(s, p) == Len(s) >= Len(p) /\ SubSeq(s, Len(s) - Len(p) + 1, Len(s)) = p

IsPrefix(p, s) == Len(p) =< Len(s) /\ SubSeq(s, 1, Len(p)) = p

CountChar(s, c) == Cardinality({x \in 1..Len(s) : s[x] = c})

RECURSIVE SeqsUpTo(_, _)
SeqsUpTo(S, n) == IF n = 0 THEN {<<>>} ELSE LET R == SeqsUpTo(S, n - 1) IN R \cup {Append(r, x) : r \in {r \in R : Len(r) = n - 1}, x \in S}

----------------------------------------------------------------------------
(* format_str *)

FmtStart(input) == [rest |-> input, output |-> <<>>, vars |-> <<>>, var |-> <<>>, pc |-> "outer", k |-> 1]

FmtIdle == [rest |-> <<>>, output |-> <<>>, vars |-> <<>>, var |-> <<>>, pc |-> "idle", k |-> 1]

\* c == '$' && input.peek() == Some(&'{')
AtMarker(rest) == Len(rest) >= 2 /\ rest[1] = "$" /\ rest[2] = "{"

\* output.push(c)
CopyChar(st) == [st EXCEPT !.rest = Tail(st.rest), !.output = Append(st.output, Head(st.rest))]

\* input.next(); let mut var = String::new();
OpenMarker(st) == [st EXCEPT !.rest = Tail(Tail(st.rest)), !.var = <<>>, !.pc = "inner"]

\* var.push(v)
PushVarChar(st) == [st EXCEPT !.rest = Tail(st.rest), !.var = Append(st.var, Head(st.rest))]

\* CloseMarker, had the end of the input been taken for ordinary text instead of a marker
CloseMarkerDropVar(st) == [st EXCEPT !.rest = IF st.rest = <<>> THEN <<>> ELSE Tail(st.rest), !.output = IF st.rest = <<>> THEN st.output \o <<"$", "{">> \o st.var ELSE st.output \o <<"{", "}">>, !.vars = IF st.rest = <<>> THEN st.vars ELSE Append(st.vars, st.var), !.pc = "outer"]

\* the inner loop ends (on '}' or on the end of the input): output += "{}"; vars.push(var)
CloseMarker(st) == [st EXCEPT !.rest = IF st.rest = <<>> THEN <<>> ELSE Tail(st.rest), !.output = st.output \o <<"{", "}">>, !.vars = Append(st.vars, st.var), !.pc = "outer"]

\* AppendVar, had the ", " been left out
AppendVarNoSeparator(st) == [st EXCEPT !.output = st.output \o st.vars[st.k], !.k = st.k + 1]

\* output += ", "; output += v.as_ref()
AppendVar(st) == [st EXCEPT !.output = st.output \o <<",", " ">> \o st.vars[st.k], !.k = st.k + 1]

\* one step of format_str
FmtStep(st) ==
    CASE st.pc = "outer" /\ st.rest = <<>> -> [st EXCEPT !.pc = "append"]
      [] st.pc = "outer" /\ st.rest # <<>> /\ AtMarker(st.rest) -> OpenMarker(st)
      [] st.pc = "outer" /\ st.rest # <<>> /\ ~AtMarker(st.rest) -> CopyChar(st)
      [] st.pc = "inner" /\ st.rest # <<>> /\ Head(st.rest) # "}" -> PushVarChar(st)
      [] st.pc = "inner" /\ (st.rest = <<>> \/ Head(st.rest) = "}") -> CloseMarker(st)
      [] st.pc = "append" /\ st.k =< Len(st.vars) -> AppendVar(st)
      [] st.pc = "append" /\ st.k > Len(st.vars) -> [st EXCEPT !.pc = "done"]
      [] OTHER -> st

RECURSIVE FmtRun(_)
FmtRun(st) == IF st.pc = "done" THEN st.output ELSE FmtRun(FmtStep(st))

format_str(input) == FmtRun(FmtStart(input))

----------------------------------------------------------------------------
(* The abstract syntax tree (crate::parser, used by the match arms of the emitter) *)

LitNum(n) == [k |-> "LitNum", n |-> n, s |-> <<>>, args |-> <<>>]

LitStr(s) == [k |-> "LitStr", n |-> 0, s |-> s, args |-> <<>>]

\* Expr::Var(v): s is v.identifier
Var(identifier) == [k |-> "Var", n |-> 0, s |-> identifier, args |-> <<>>]

\* Expr::CallFun(f, args): s is f
CallFun(f, args) == [k |-> "CallFun", n |-> 0, s |-> f, args |-> args]

\* any other Expr variant: s is its {:?} rendering
OtherExpr(dbg) == [k |-> "OtherExpr", n |-> 0, s |-> dbg, args |-> <<>>]

CallCmd(cmd, parameters) == [k |-> "CallCmd", name |-> cmd, params |-> <<>>, body |-> <<>>, args |-> parameters, expr |-> <<>>]

\* Return(expr): expr is the one-element sequence <<expr>>
Return(expr) == [k |-> "Return", name |-> <<>>, params |-> <<>>, body |-> <<>>, args |-> <<>>, expr |-> <<expr>>]

\* DefVar(var_name, var_def): expr is <<>> for None and <<e>> for Some(e)
DefVar(var_name, var_def) == [k |-> "DefVar", name |-> var_name, params |-> <<>>, body |-> <<>>, args |-> <<>>, expr |-> var_def]

DefFun(fun_name, parameters, body) == [k |-> "DefFun", name |-> fun_name, params |-> parameters, body |-> body, args |-> <<>>, expr |-> <<>>]

DefCmd(cmd_name, parameters, body) == [k |-> "DefCmd", name |-> cmd_name, params |-> parameters, body |-> body, args |-> <<>>, expr |-> <<>>]

\* any other Stmt variant: name is its {:?} rendering
OtherStmt(dbg) == [k |-> "OtherStmt", name |-> dbg, params |-> <<>>, body |-> <<>>, args |-> <<>>, expr |-> <<>>]

----------------------------------------------------------------------------
(* String literals of the emitter *)

INDENT == 4

HeaderComment == <<"/", "/", " ", "G", "e", "n", "e", "r", "a", "t", "e", "d", " ", "b", "y", " ", "r", "u", "s", "t", "-", "s", "h", "e", "l", "l", "-", "s", "c", "r", "i", "p", "t">>

ModLine == <<"m", "o", "d", " ", "c", "m", "d", "_", "l", "i", "b", ";">>

UseLine == <<"u", "s", "e", " ", "c", "r", "a", "t", "e", ":", ":", "c", "m", "d", "_", "l", "i", "b", ":", ":", "{", "C", "m", "d", "R", "e", "s", "u", "l", "t", ",", " ", "F", "u", "n", "R", "e", "s", "u", "l", "t", "}", ";">>

FnKw == <<"f", "n", " ">>

ParamType == <<":", " ", "&", "s", "t", "r">>

FunResultTail == <<")", " ", "-", ">", " ", "F", "u", "n", "R", "e", "s", "u", "l", "t", " ", "{">>

CmdResultTail == <<")", " ", "-", ">", " ", "C", "m", "d", "R", "e", "s", "u", "l", "t", " ", "{">>

RunCmdOpen == <<"r", "u", "n", "_", "c", "m", "d", "!", "(", "\"">>

RunCmdClose == <<"\"", ")">>

ReturnKw == <<"r", "e", "t", "u", "r", "n", " ">>

LetKw == <<"l", "e", "t", " ">>

LetEq == <<" ", "=", " ">>

LetEmpty == <<" ", "=", " ", "S", "t", "r", "i", "n", "g", ":", ":", "n", "e", "w", "(", ")", ";">>

OkUnit == <<"O", "k", "(", "(", ")", ")">>

ErrUnit == <<"E", "r", "r", "(", "(", ")", ")">>

VarOpen == <<"\"", "$", "{">>

VarClose == <<"}", "\"">>

CallFunTail == <<")", "?", ";">>

GeneratingMsg == <<"G", "e", "n", "e", "r", "a", "t", "i", "n", "g", " ", "r", "u", "s", "t", " ", "c", "o", "d", "e", " ", "t", "o", " ">>

NotSupportedMsg == <<"N", "o", "t", " ", "s", "u", "p", "p", "o", "r", "t", "e", "d", " ", "y", "e", "t", "!">>

InfoName == <<"i", "n", "f", "o">>

OutputName == <<"o", "u", "t", "p", "u", "t">>

----------------------------------------------------------------------------
(* visit_expr, visit_call *)

RECURSIVE visit_expr(_), visit_call(_), JoinArgs(_, _)

\* the loop of visit_call over the first n parameters
JoinArgs(parameters, n) == IF n = 0 THEN <<>> ELSE JoinArgs(parameters, n - 1) \o (IF n > 1 THEN <<" ">> ELSE <<>>) \o visit_expr(parameters[n])

visit_call(parameters) == format_str(JoinArgs(parameters, Len(parameters)))

visit_expr(expr) ==
    CASE expr.k = "LitNum" -> IF expr.n = 0 THEN OkUnit ELSE ErrUnit
      [] expr.k = "LitStr" -> <<"\"">> \o expr.s \o <<"\"">>
      [] expr.k = "Var" -> VarOpen \o expr.s \o VarClose
      [] expr.k = "CallFun" -> expr.s \o <<"(">> \o visit_call(expr.args) \o CallFunTail
      [] OTHER -> expr.s

----------------------------------------------------------------------------
(* The lines written by the statement and routine emitters *)

\* output!(file, indent, ...): one line, indented
OutputLine(n, text) == Spaces(n) \o text

\* IsLast, had the comparison been with body.len()
IsLastOffByOne(idx, len) == idx = len

\* i == body.len()-1, i counted from 0
IsLast(idx, len) == idx = len - 1

\* Ending, had info followed the general rule
EndingNoExemption(cmd, is_last) == IF ~is_last THEN <<"?", ";">> ELSE <<>>

\* Ending, had is_last been ignored
EndingInAnyPosition(cmd, is_last) == IF cmd = InfoName THEN <<";">> ELSE <<"?", ";">>

\* the `ending` of visit_call_cmd
Ending(cmd, is_last) == IF ~is_last THEN (IF cmd = InfoName THEN <<";">> ELSE <<"?", ";">>) ELSE <<>>

\* cmd == "info" || cmd == "output"
IsBuiltin(cmd) == cmd = InfoName \/ cmd = OutputName

\* cmd after `cmd += "!"` for a builtin
MacroName(cmd) == IF IsBuiltin(cmd) THEN Append(cmd, "!") ELSE cmd

\* IsDirectCall, had the builtin flag been left out of the test
IsDirectCallBySymbolOnly(symbols, cmd) == MacroName(cmd) \in symbols

\* builtin || sym_table.contains(&cmd)
IsDirectCall(symbols, cmd) == IsBuiltin(cmd) \/ MacroName(cmd) \in symbols

\* the text visit_call_cmd writes
CallCmdText(symbols, cmd, parameters, is_last) ==
    IF IsDirectCall(symbols, cmd)
    THEN IF Len(parameters) = 0
         THEN MacroName(cmd) \o <<"(", ")">> \o Ending(cmd, is_last)
         ELSE MacroName(cmd) \o <<"(">> \o visit_call(parameters) \o <<")">> \o Ending(cmd, is_last)
    ELSE IF Len(parameters) = 0
         THEN RunCmdOpen \o MacroName(cmd) \o RunCmdClose \o Ending(cmd, is_last)
         ELSE RunCmdOpen \o MacroName(cmd) \o <<" ">> \o visit_call(parameters) \o RunCmdClose \o Ending(cmd, is_last)

\* ReturnText, had the line been terminated like that of visit_def_var
ReturnTextTerminated(expr) == ReturnKw \o visit_expr(expr) \o <<";">>

\* the text visit_return writes
ReturnText(expr) == ReturnKw \o visit_expr(expr)

\* the text visit_def_var writes
DefVarText(var_name, var_def) == IF var_def # <<>> THEN LetKw \o var_name \o LetEq \o visit_expr(var_def[1]) \o <<";">> ELSE LetKw \o var_name \o LetEmpty

\* the `_` arm of visit_stmt: format!("{:?}", stmt), with "?" unless is_last
FallbackText(stmt, is_last) == IF ~is_last THEN Append(stmt.name, "?") ELSE stmt.name

\* visit_stmt: the text of the line written for stmt
StmtText(symbols, stmt, is_last) ==
    CASE stmt.k = "CallCmd" -> CallCmdText(symbols, stmt.name, stmt.args, is_last)
      [] stmt.k = "Return" -> ReturnText(stmt.expr[1])
      [] stmt.k = "DefVar" -> DefVarText(stmt.name, stmt.expr)
      [] OTHER -> FallbackText(stmt, is_last)

RECURSIVE FunArgs(_, _)
\* the loop over parameters of visit_def_fun / visit_def_cmd, over the first n parameters
FunArgs(parameters, n) == IF n = 0 THEN <<>> ELSE FunArgs(parameters, n - 1) \o (IF n # 1 THEN <<",", " ">> ELSE <<>>) \o parameters[n] \o ParamType

\* fun_args of visit_def_fun
FunSignature(fun_name, parameters) == FnKw \o fun_name \o <<"(">> \o FunArgs(parameters, Len(parameters)) \o FunResultTail

\* fun_args of visit_def_cmd
CmdSignature(fun_name, parameters) == FnKw \o fun_name \o <<"(">> \o FunArgs(parameters, Len(parameters)) \o CmdResultTail

\* BodyIndent, had indent been kept from the routine emitted before
BodyIndentKept(prev) == prev + INDENT

\* let mut indent = 0; indent += INDENT;
BodyIndent(prev) == 0 + INDENT

\* the name of the output file of a run
Target(r) == IF r = 1 THEN <<"a", ".", "r", "s">> ELSE <<"b", ".", "r", "s">>

----------------------------------------------------------------------------
(* The inputs drawn for gen_code *)

NameFoo == <<"f", "o", "o">>

NameLs == <<"l", "s">>

VarX == <<"x">>

FunG == <<"g">>

StrA == <<"a">>

DbgStmt == <<"B", "r", "e", "a", "k">>

DbgExpr == <<"N", "i", "l">>

RoutineF == <<"f">>

RoutineC == <<"c">>

ParamName == <<"n", "a", "m", "e">>

\* symbol sets: each name of CmdNames but ls is in one and missing from the other
SymTables == {{NameFoo, InfoName}, {OutputName}}

CmdNames == {InfoName, OutputName, NameFoo, NameLs}

ArgLists == {<<>>, <<Var(VarX), CallFun(FunG, <<LitStr(StrA)>>)>>}

ReturnExprs == {LitNum(0), LitNum(1), LitStr(StrA), Var(VarX), CallFun(FunG, <<>>), OtherExpr(DbgExpr)}

BodyStmts == {CallCmd(c, a) : c \in CmdNames, a \in ArgLists} \cup {Return(e) : e \in ReturnExprs} \cup {DefVar(VarX, <<>>), DefVar(VarX, <<CallFun(FunG, <<>>)>>), OtherStmt(DbgStmt)}

Bodies == SeqsUpTo(BodyStmts, MaxBody)

\* programs of one routine, with every body up to MaxBody
SinglePrograms == {<<DefFun(RoutineF, <<ParamName>>, b)>> : b \in Bodies} \cup {<<DefCmd(RoutineC, <<>>, b)>> : b \in Bodies}

\* top-level declarations of the programs of several declarations
TopDecls == {DefFun(RoutineF, <<ParamName>>, <<CallCmd(InfoName, <<>>), Return(LitNum(0))>>), DefCmd(RoutineC, <<>>, <<>>), DefCmd(NameFoo, <<VarX, StrA>>, <<CallCmd(NameLs, <<Var(VarX)>>), OtherStmt(DbgStmt), DefVar(VarX, <<LitStr(StrA)>>)>>), CallCmd(NameLs, <<>>)}

MultiPrograms == SeqsUpTo(TopDecls, MaxTop)

Programs == SinglePrograms \cup MultiPrograms

\* what the output file may hold before gen_code opens it
PriorContents == {<<>>, <<StrA>>}

FmtUnused ==
    /\ f_input = <<>>
    /\ fst = FmtIdle

Init ==
    /\ stmts \in Programs
    /\ sym_table \in SymTables
    /\ file \in PriorContents
    /\ stderr = <<>>
    /\ pc = "start"
    /\ i = 1
    /\ j = 1
    /\ indent = 0
    /\ flags = <<>>
    /\ underflow = FALSE
    /\ run = 1
    /\ first = <<>>
    /\ FmtUnused

InitRerun ==
    /\ stmts \in MultiPrograms
    /\ sym_table \in SymTables
    /\ file \in PriorContents
    /\ stderr = <<>>
    /\ pc = "start"
    /\ i = 1
    /\ j = 1
    /\ indent = 0
    /\ flags = <<>>
    /\ underflow = FALSE
    /\ run = 1
    /\ first = <<>>
    /\ FmtUnused

----------------------------------------------------------------------------
(* gen_code and the emitters it calls *)

\* gen_code up to its for loop: the notice, the file opened with truncate, the header and the prelude
GenCodeOpen ==
    /\ pc = "start"
    /\ stderr' = Append(stderr, GeneratingMsg \o Target(run) \o <<" ", ".", ".", ".">>)
    /\ file' = <<OutputLine(0, HeaderComment), OutputLine(0, ModLine), OutputLine(0, UseLine), OutputLine(0, <<>>)>>
    /\ i' = 1
    /\ pc' = "top"
    /\ UNCHANGED <<stmts, sym_table, j, indent, flags, underflow, run, first, fmtVars>>

\* the DefFun arm: visit_def_fun up to its loop over the body
VisitDefFun ==
    /\ pc = "top" /\ i =< Len(stmts) /\ stmts[i].k = "DefFun"
    /\ file' = Append(file, OutputLine(0, FunSignature(stmts[i].name, stmts[i].params)))
    /\ indent' = BodyIndent(indent)
    /\ j' = 1
    /\ flags' = <<>>
    /\ pc' = "body"
    /\ UNCHANGED <<stmts, sym_table, stderr, i, underflow, run, first, fmtVars>>

\* the DefCmd arm: visit_def_cmd up to its loop over the body
VisitDefCmd ==
    /\ pc = "top" /\ i =< Len(stmts) /\ stmts[i].k = "DefCmd"
    /\ file' = Append(file, OutputLine(0, CmdSignature(stmts[i].name, stmts[i].params)))
    /\ indent' = BodyIndent(indent)
    /\ j' = 1
    /\ flags' = <<>>
    /\ pc' = "body"
    /\ UNCHANGED <<stmts, sym_table, stderr, i, underflow, run, first, fmtVars>>

\* NotSupported, had the declaration been dumped as visit_stmt dumps a statement
NotSupportedWithFallback ==
    /\ pc = "top" /\ i =< Len(stmts) /\ stmts[i].k \notin {"DefFun", "DefCmd"}
    /\ stderr' = Append(stderr, NotSupportedMsg)
    /\ file' = Append(file, OutputLine(0, StmtText(sym_table, stmts[i], FALSE)))
    /\ i' = i + 1
    /\ UNCHANGED <<stmts, sym_table, pc, j, indent, flags, underflow, run, first, fmtVars>>

\* the `_` arm of gen_code
NotSupported ==
    /\ pc = "top" /\ i =< Len(stmts) /\ stmts[i].k \notin {"DefFun", "DefCmd"}
    /\ stderr' = Append(stderr, NotSupportedMsg)
    /\ i' = i + 1
    /\ UNCHANGED <<stmts, sym_table, file, pc, j, indent, flags, underflow, run, first, fmtVars>>

\* one iteration of the loop over the body: visit_stmt(sym_table, file, &mut indent, stmt, i == body.len()-1)
VisitStmt ==
    /\ pc = "body" /\ j =< Len(stmts[i].body)
    /\ LET body == stmts[i].body
           is_last == IsLast(j - 1, Len(body))
       IN /\ file' = Append(file, OutputLine(indent, StmtText(sym_table, body[j], is_last)))
          /\ flags' = Append(flags, is_last)
          /\ underflow' = (underflow \/ Len(body) = 0)
    /\ j' = j + 1
    /\ UNCHANGED <<stmts, sym_table, stderr, pc, i, indent, run, first, fmtVars>>

\* the CallCmd arm of visit_stmt: visit_call_cmd
VisitCallCmd ==
    /\ pc = "body" /\ j =< Len(stmts[i].body) /\ stmts[i].body[j].k = "CallCmd"
    /\ VisitStmt

\* the Return arm of visit_stmt: visit_return
VisitReturn ==
    /\ pc = "body" /\ j =< Len(stmts[i].body) /\ stmts[i].body[j].k = "Return"
    /\ VisitStmt

\* the DefVar arm of visit_stmt: visit_def_var
VisitDefVar ==
    /\ pc = "body" /\ j =< Len(stmts[i].body) /\ stmts[i].body[j].k = "DefVar"
    /\ VisitStmt

\* the `_` arm of visit_stmt; it writes nothing to stderr
VisitFallback ==
    /\ pc = "body" /\ j =< Len(stmts[i].body) /\ stmts[i].body[j].k \notin {"CallCmd", "Return", "DefVar"}
    /\ VisitStmt

\* after the loop over the body: output!(file, 0, "}}"); output!(file, 0, "");
CloseRoutine ==
    /\ pc = "body" /\ j > Len(stmts[i].body)
    /\ file' = file \o <<OutputLine(0, <<"}">>), OutputLine(0, <<>>)>>
    /\ i' = i + 1
    /\ pc' = "top"
    /\ UNCHANGED <<stmts, sym_table, stderr, j, indent, flags, underflow, run, first, fmtVars>>

\* the for loop of gen_code is over: gen_code returns and the file is closed
GenCodeReturn ==
    /\ pc = "top" /\ i > Len(stmts)
    /\ pc' = "done"
    /\ UNCHANGED <<stmts, sym_table, file, stderr, i, j, indent, flags, underflow, run, first, fmtVars>>

\* gen_code is called again on the same stmts and sym_table, with a fresh output target
Rerun ==
    /\ pc = "done" /\ run = 1
    /\ first' = file
    /\ file' = <<>>
    /\ run' = 2
    /\ pc' = "start"
    /\ UNCHANGED <<stmts, sym_table, stderr, i, j, indent, flags, underflow, fmtVars>>

Next ==
    \/ GenCodeOpen
    \/ VisitDefFun
    \/ VisitDefCmd
    \/ NotSupported
    \/ VisitCallCmd
    \/ VisitReturn
    \/ VisitDefVar
    \/ VisitFallback
    \/ CloseRoutine
    \/ GenCodeReturn

Spec == Init /\ [][Next]_vars

NextRerun ==
    \/ Next
    \/ Rerun

SpecRerun == InitRerun /\ [][NextRerun]_vars

----------------------------------------------------------------------------
(* SpecFmt: format_str applied to every input over FmtAlphabet up to MaxLen, and to the input of test_format_str *)

FmtAlphabet == {"$", "{", "}", "a", " "}

TestInput == <<"$", "{", "a", "}", " ", "a", "a", " ", "$", "{", "b", "}", " ", "b", "b", " ", "$", "{", "c", "c", "}">>

FmtInputs == SeqsUpTo(FmtAlphabet, MaxLen) \cup {TestInput}

EmitIdle ==
    /\ stmts = <<>>
    /\ sym_table = {}
    /\ file = <<>>
    /\ stderr = <<>>
    /\ pc = "idle"
    /\ i = 1
    /\ j = 1
    /\ indent = 0
    /\ flags = <<>>
    /\ underflow = FALSE
    /\ run = 1
    /\ first = <<>>

InitFmt ==
    /\ f_input \in FmtInputs
    /\ fst = FmtStart(f_input)
    /\ EmitIdle

FmtOuterCopy ==
    /\ fst.pc = "outer" /\ fst.rest # <<>> /\ ~AtMarker(fst.rest)
    /\ fst' = FmtStep(fst)
    /\ UNCHANGED <<f_input, emitVars>>

FmtOuterMarker ==
    /\ fst.pc = "outer" /\ fst.rest # <<>> /\ AtMarker(fst.rest)
    /\ fst' = FmtStep(fst)
    /\ UNCHANGED <<f_input, emitVars>>

FmtOuterEnd ==
    /\ fst.pc = "outer" /\ fst.rest = <<>>
    /\ fst' = FmtStep(fst)
    /\ UNCHANGED <<f_input, emitVars>>

FmtInnerPush ==
    /\ fst.pc = "inner" /\ fst.rest # <<>> /\ Head(fst.rest) # "}"
    /\ fst' = FmtStep(fst)
    /\ UNCHANGED <<f_input, emitVars>>

FmtInnerBreak ==
    /\ fst.pc = "inner" /\ fst.rest # <<>> /\ Head(fst.rest) = "}"
    /\ fst' = FmtStep(fst)
    /\ UNCHANGED <<f_input, emitVars>>

FmtInnerEof ==
    /\ fst.pc = "inner" /\ fst.rest = <<>>
    /\ fst' = FmtStep(fst)
    /\ UNCHANGED <<f_input, emitVars>>

FmtAppendVar ==
    /\ fst.pc = "append" /\ fst.k =< Len(fst.vars)
    /\ fst' = FmtStep(fst)
    /\ UNCHANGED <<f_input, emitVars>>

FmtReturn ==
    /\ fst.pc = "append" /\ fst.k > Len(fst.vars)
    /\ fst' = FmtStep(fst)
    /\ UNCHANGED <<f_input, emitVars>>

NextFmt ==
    \/ FmtOuterCopy
    \/ FmtOuterMarker
    \/ FmtOuterEnd
    \/ FmtInnerPush
    \/ FmtInnerBreak
    \/ FmtInnerEof
    \/ FmtAppendVar
    \/ FmtReturn

SpecFmt == InitFmt /\ [][NextFmt]_vars

SpecFmtFair == InitFmt /\ [][NextFmt]_vars /\ WF_vars(NextFmt)

----------------------------------------------------------------------------
(* The statement emitted last, for the properties of visit_stmt *)

\* a statement of the routine being emitted has been written
Emitted == pc = "body" /\ j > 1

CurStmt == stmts[i].body[j - 1]

CurIsLast == j - 1 = Len(stmts[i].body)

CurLine == file[Len(file)]

\* the line without the indentation of a routine body
TextOf(line) == SubSeq(line, INDENT + 1, Len(line))

CurText == TextOf(CurLine)

PrevText == TextOf(file[Len(file) - 1])

\* run_cmd!("...") followed by nothing, ";" or "?;"
IsRunCmdLine(text) == StartsWith(text, RunCmdOpen) /\ (EndsWith(text, RunCmdClose) \/ EndsWith(text, RunCmdClose \o <<";">>) \/ EndsWith(text, RunCmdClose \o <<"?", ";">>))

HeaderLines == <<HeaderComment, ModLine, UseLine, <<>>>>

----------------------------------------------------------------------------
(* C1: a call-command whose name is in the symbol set is never written as a
   run_cmd!("...") line; one whose name is not in it always is, unless the
   name is info or output, which are written as info!(...) and output!(...)
   whether or not they are in the symbol set. *)
C1_Classification ==
    (Emitted /\ CurStmt.k = "CallCmd") =>
        LET name == CurStmt.name IN
        /\ name \in sym_table => ~IsRunCmdLine(CurText)
        /\ (name \notin sym_table /\ name \notin {InfoName, OutputName}) => (IsRunCmdLine(CurText) /\ StartsWith(CurText, RunCmdOpen \o name))
        /\ name \in {InfoName, OutputName} => (StartsWith(CurText, name \o <<"!", "(">>) /\ ~IsRunCmdLine(CurText))

\* foo, in the symbol set and with arguments, was written as a direct call and then ls, last, as run_cmd!
C1_Witness ==
    /\ Emitted /\ j = 3 /\ CurIsLast
    /\ stmts[i].body[1].k = "CallCmd" /\ stmts[i].body[1].name = NameFoo /\ stmts[i].body[1].args # <<>>
    /\ NameFoo \in sym_table
    /\ CurStmt.k = "CallCmd" /\ CurStmt.name = NameLs
    /\ StartsWith(PrevText, NameFoo \o <<"(">>)
    /\ IsRunCmdLine(CurText)

----------------------------------------------------------------------------
(* C2 *)

RECURSIVE ExprMarks(_), ArgsMarks(_, _)
\* the number of '?' the rendering of an expression carries: one per routine invocation, and those of its literal text
ExprMarks(e) == CountChar(e.s, "?") + (IF e.k = "CallFun" THEN 1 + ArgsMarks(e.args, Len(e.args)) ELSE 0)

ArgsMarks(args, n) == IF n = 0 THEN 0 ELSE ArgsMarks(args, n - 1) + ExprMarks(args[n])

StmtMarks(stmt) == CountChar(stmt.name, "?") + ArgsMarks(stmt.args, Len(stmt.args)) + ArgsMarks(stmt.expr, Len(stmt.expr))

\* the text ends with the propagate-on-failure suffix, alone or with its statement terminator
EndsSuffixed(text) == EndsWith(text, <<"?">>) \/ EndsWith(text, <<"?", ";">>)

(* C2, as stated: the line written for the last statement of a body never
   ends with an appended propagate-on-failure suffix '?', whatever the
   statement kind and its operand or argument expressions, routine
   invocations included. *)
C2_LastNeverSuffixed == (Emitted /\ CurIsLast) => ~EndsSuffixed(CurText)

(* C2, amended: the statement emitter appends no propagate-on-failure suffix
   to the last statement of a body: its line ends with the suffix only when
   it is a return whose operand is a routine invocation, which visit_expr
   always renders with "?;"; the only '?' in the line are those of the
   renderings of its operand and argument expressions, one per routine
   invocation plus those of literal text; a call-command line ends with its
   closing parenthesis and an unsupported statement is its dump alone. *)
C2_LastSuffixOnlyFromOperands ==
    (Emitted /\ CurIsLast) =>
        /\ EndsSuffixed(CurText) <=> (CurStmt.k = "Return" /\ CurStmt.expr[1].k = "CallFun")
        /\ CountChar(CurText, "?") = StmtMarks(CurStmt)
        /\ CurStmt.k = "CallCmd" => EndsWith(CurText, <<")">>)
        /\ CurStmt.k = "OtherStmt" => CurText = CurStmt.name

\* a body of two call-commands: the first line ends with "?;", the last one carries no '?'
C2_Witness ==
    /\ Emitted /\ j = 3 /\ CurIsLast
    /\ stmts[i].body[1].k = "CallCmd" /\ CurStmt.k = "CallCmd" /\ CurStmt.name = NameLs /\ CurStmt.args = <<>>
    /\ EndsWith(PrevText, <<"?", ";">>)
    /\ CountChar(CurText, "?") = 0

----------------------------------------------------------------------------
(* C3: a call-command to info never gets the suffix: its line ends with ");"
   when it is not last and with ")" when it is; every other call-command that
   is not last (output, a routine of the symbol set, an external command) has
   its line end with "?;".  The body [info(), return 0] of a routine with the
   parameter name is written as the two lines "    info!();" and
   "    return Ok(())". *)
C3_SuffixAsymmetry ==
    /\ (Emitted /\ CurStmt.k = "CallCmd") =>
          IF CurStmt.name = InfoName
          THEN /\ ~EndsWith(CurText, <<"?", ";">>) /\ ~EndsWith(CurText, <<"?">>)
               /\ IF CurIsLast THEN EndsWith(CurText, <<")">>) ELSE EndsWith(CurText, <<")", ";">>)
          ELSE ~CurIsLast => EndsWith(CurText, <<")", "?", ";">>)
    /\ (pc = "done" /\ stmts = <<DefFun(RoutineF, <<ParamName>>, <<CallCmd(InfoName, <<>>), Return(LitNum(0))>>)>>) =>
          file = HeaderLines \o << <<"f", "n", " ", "f", "(", "n", "a", "m", "e", ":", " ", "&", "s", "t", "r", ")", " ", "-", ">", " ", "F", "u", "n", "R", "e", "s", "u", "l", "t", " ", "{">>,
                                   <<" ", " ", " ", " ", "i", "n", "f", "o", "!", "(", ")", ";">>,
                                   <<" ", " ", " ", " ", "r", "e", "t", "u", "r", "n", " ", "O", "k", "(", "(", ")", ")">>,
                                   <<"}">>,
                                   <<>> >>

\* the routine f(name) with the body [info(), return 0] has been emitted
C3_Witness ==
    /\ pc = "done"
    /\ stmts = <<DefFun(RoutineF, <<ParamName>>, <<CallCmd(InfoName, <<>>), Return(LitNum(0))>>)>>
    /\ Len(file) = 9

----------------------------------------------------------------------------
(* C5 *)

\* the lines of one top-level declaration: nothing unless it is a routine definition
ExpectedBlock(decl) ==
    IF decl.k \in {"DefFun", "DefCmd"}
    THEN << (IF decl.k = "DefFun" THEN FunSignature(decl.name, decl.params) ELSE CmdSignature(decl.name, decl.params)) >>
         \o [n \in 1..Len(decl.body) |-> Spaces(INDENT) \o StmtText(sym_table, decl.body[n], n = Len(decl.body))]
         \o << <<"}">>, <<>> >>
    ELSE <<>>

ExpectedArtifact == HeaderLines \o Concat([n \in 1..Len(stmts) |-> ExpectedBlock(stmts[n])])

(* C5: the lines written are the header comment, the prelude and a blank
   line, then for each routine definition, in input order, its signature, its
   body statements in body order, "}" and a blank line; a declaration of any
   other kind contributes no line.  At every moment of the run the file is a
   prefix of that text, and it is that text when gen_code returns. *)
C5_OutputOrdering ==
    /\ pc \in {"top", "body", "done"} => IsPrefix(file, ExpectedArtifact)
    /\ pc = "done" => file = ExpectedArtifact

\* two routines around a declaration of another kind have been emitted
C5_Witness ==
    /\ pc = "done" /\ Len(stmts) = 3
    /\ stmts[1].k = "DefFun" /\ stmts[2].k = "CallCmd" /\ stmts[3].k = "DefCmd" /\ Len(stmts[3].body) = 3
    /\ Len(file) = 4 + 5 + 6

----------------------------------------------------------------------------
(* C6: a second run of gen_code on the same statements and symbol set, to a
   fresh output target, writes the same lines as the first, whatever the first
   run left behind. *)
C6_Deterministic ==
    /\ (run = 2 /\ pc \in {"top", "body", "done"}) => IsPrefix(file, first)
    /\ (run = 2 /\ pc = "done") => file = first

\* both runs are over and wrote two routines
C6_Witness ==
    /\ run = 2 /\ pc = "done"
    /\ Len(stmts) >= 2 /\ stmts[1].k = "DefFun" /\ stmts[2].k = "DefCmd"
    /\ Len(file) > 9

----------------------------------------------------------------------------
(* C7: when visit_stmt emits a statement that is neither a call-command, a
   return nor a define-variable, it writes the statement's structural dump,
   with "?" unless the statement is last, a notice is written to stderr, and
   emission goes on with the next statement. *)
C7_FallbackNotice ==
    [][(pc = "body" /\ j =< Len(stmts[i].body) /\ stmts[i].body[j].k \notin {"CallCmd", "Return", "DefVar"} /\ j' = j + 1) =>
        /\ file' = Append(file, Spaces(INDENT) \o stmts[i].body[j].name \o (IF j = Len(stmts[i].body) THEN <<>> ELSE <<"?">>))
        /\ pc' = "body"
        /\ Len(stderr') > Len(stderr)]_vars

----------------------------------------------------------------------------
(* C8: the line of a return statement, in any position, is "return " followed
   by visit_expr's rendering of the operand, with nothing after it: no suffix
   and no terminator beyond what the rendering itself carries (only a routine
   invocation's rendering ends with "?;"). *)
C8_ReturnUnsuffixed ==
    (Emitted /\ CurStmt.k = "Return") =>
        LET e == CurStmt.expr[1] IN
        /\ CurLine = Spaces(INDENT) \o <<"r", "e", "t", "u", "r", "n", " ">> \o visit_expr(e)
        /\ e.k # "CallFun" => (~EndsWith(CurText, <<";">>) /\ CountChar(CurText, "?") = 0)
        /\ e = LitNum(0) => CurLine = <<" ", " ", " ", " ", "r", "e", "t", "u", "r", "n", " ", "O", "k", "(", "(", ")", ")">>
        /\ e = LitNum(1) => CurLine = <<" ", " ", " ", " ", "r", "e", "t", "u", "r", "n", " ", "E", "r", "r", "(", "(", ")", ")">>

\* a return of a string literal that is not the last statement of its body
C8_Witness ==
    /\ Emitted /\ ~CurIsLast
    /\ CurStmt = Return(LitStr(StrA))
    /\ CurText = <<"r", "e", "t", "u", "r", "n", " ", "\"", "a", "\"">>

----------------------------------------------------------------------------
(* C10: a routine with an empty body is emitted as its signature, "}" and a
   blank line, and body.len()-1 is never evaluated for it; for a body that is
   not empty, visit_stmt gets is_last = true for the statement at the final
   index and for no other. *)
C10_EmptyBody ==
    /\ ~underflow
    /\ pc = "body" => Len(flags) = j - 1
    /\ (pc = "top" /\ i > 1 /\ stmts[i - 1].k \in {"DefFun", "DefCmd"}) =>
          LET decl == stmts[i - 1]
              sig == IF decl.k = "DefFun" THEN FunSignature(decl.name, decl.params) ELSE CmdSignature(decl.name, decl.params)
          IN /\ flags = [n \in 1..Len(decl.body) |-> n = Len(decl.body)]
             /\ decl.body = <<>> => (Len(file) >= 3 /\ SubSeq(file, Len(file) - 2, Len(file)) = <<sig, <<"}">>, <<>> >>)
    /\ (pc = "done" /\ stmts = <<DefCmd(RoutineC, <<>>, <<>>)>>) =>
          file = HeaderLines \o << <<"f", "n", " ", "c", "(", ")", " ", "-", ">", " ", "C", "m", "d", "R", "e", "s", "u", "l", "t", " ", "{">>, <<"}">>, <<>> >>

\* a routine with an empty body has been emitted, alone in its program
C10_Witness ==
    /\ pc = "done"
    /\ Len(stmts) = 1 /\ stmts[1].k = "DefFun" /\ stmts[1].body = <<>>
    /\ Len(file) = 7 /\ flags = <<>>

----------------------------------------------------------------------------
(* C4 and C9: format_str against a definition of its result by recursion on the input *)

\* the place of the first '}' of s, Len(s) + 1 when it has none
FirstClose(s) == IF \E p \in 1..Len(s) : s[p] = "}" THEN CHOOSE p \in 1..Len(s) : s[p] = "}" /\ \A q \in 1..(p - 1) : s[q] # "}" ELSE Len(s) + 1

MarkerAt(s, p) == p + 1 =< Len(s) /\ s[p] = "$" /\ s[p + 1] = "{"

RECURSIVE RefTemplate(_), RefIdents(_)
\* the input with each marker, from "${" to the first '}' after it or to the end of the input, replaced by "{}"
RefTemplate(s) ==
    IF s = <<>> THEN <<>>
    ELSE IF MarkerAt(s, 1)
         THEN LET r == SubSeq(s, 3, Len(s)) IN <<"{", "}">> \o RefTemplate(SubSeq(r, FirstClose(r) + 1, Len(r)))
         ELSE <<s[1]>> \o RefTemplate(SubSeq(s, 2, Len(s)))

\* the identifiers of the markers, from left to right
RefIdents(s) ==
    IF s = <<>> THEN <<>>
    ELSE IF MarkerAt(s, 1)
         THEN LET r == SubSeq(s, 3, Len(s)) IN <<SubSeq(r, 1, FirstClose(r) - 1)>> \o RefIdents(SubSeq(r, FirstClose(r) + 1, Len(r)))
         ELSE RefIdents(SubSeq(s, 2, Len(s)))

\* ", " + identifier for each identifier
RefSuffix(ids) == Concat([n \in 1..Len(ids) |-> <<",", " ">> \o ids[n]])

NoMarker(s) == \A p \in 1..Len(s) : ~MarkerAt(s, p)

(* C4: the result of format_str is the template followed by ", " and the
   identifier for each marker; the template is the input with each marker
   replaced by "{}" and every other character copied in order; the identifiers
   are in order of appearance, duplicates kept, one per placeholder.  Without
   a marker the result is the input, and "${a} aa ${b} bb ${cc}" gives
   "{} aa {} bb {}, a, b, cc". *)
C4_FormatStr ==
    /\ (fst.pc = "append" /\ fst.k = 1) => (fst.output = RefTemplate(f_input) /\ fst.vars = RefIdents(f_input))
    /\ fst.pc = "done" =>
          /\ fst.output = RefTemplate(f_input) \o RefSuffix(RefIdents(f_input))
          /\ fst.vars = RefIdents(f_input)
          /\ Len(fst.output) = Len(RefTemplate(f_input)) + 2 * Len(fst.vars) + Len(Concat(fst.vars))
          /\ NoMarker(f_input) => fst.output = f_input
          /\ f_input = TestInput => fst.output = <<"{", "}", " ", "a", "a", " ", "{", "}", " ", "b", "b", " ", "{", "}", ",", " ", "a", ",", " ", "b", ",", " ", "c", "c">>

\* format_str has returned on the input of test_format_str
C4_Witness ==
    /\ fst.pc = "done" /\ f_input = TestInput
    /\ fst.vars = << <<"a">>, <<"b">>, <<"c", "c">> >>

\* the place of the "${" that no '}' follows, 0 when every marker is closed
Unterminated(s) == IF \E p \in 1..Len(s) : MarkerAt(s, p) /\ \A q \in (p + 2)..Len(s) : s[q] # "}" THEN CHOOSE p \in 1..Len(s) : MarkerAt(s, p) /\ (\A q \in (p + 2)..Len(s) : s[q] # "}") /\ \A r \in 1..(p - 1) : ~(MarkerAt(s, r) /\ \A q \in (r + 2)..Len(s) : s[q] # "}") ELSE 0

C9_ToEndOfInput ==
    LET u == Unterminated(f_input) IN
    (u > 0 /\ ((fst.pc = "append" /\ fst.k = 1) \/ fst.pc = "done")) =>
        /\ Len(fst.vars) >= 1
        /\ fst.vars[Len(fst.vars)] = SubSeq(f_input, u + 2, Len(f_input))
        /\ LET template == RefTemplate(SubSeq(f_input, 1, u - 1)) \o <<"{", "}">>
           IN IF fst.pc = "done" THEN fst.output = template \o RefSuffix(fst.vars) ELSE fst.output = template

(* C9: on an input with a "${" that no '}' follows, format_str returns;
   everything after the "${" is the last identifier, one "{}" is appended to
   the template for it, and nothing after the "${" is copied into the
   template. *)
C9_Unterminated == [](C9_ToEndOfInput) /\ <>(fst.pc = "done")

\* format_str has returned on "a${a"
C9_Witness ==
    /\ fst.pc = "done" /\ f_input = <<"a", "$", "{", "a">>
    /\ fst.output = <<"a", "{", "}", ",", " ", "a">>

====
